---- MODULE Spec2Model ----
(***************************************************************************)
(* Interview question pack generator: the document exporters               *)
(* (utils/export_iqt.py: pack_to_pdf, pack_to_docx), the question          *)
(* normalisation of utils/generation_iqt.py (_ensure_question_mark,        *)
(* call_openai_json, build_ivq_pack) and the section normaliser of the     *)
(* pack that app.py obtains from generate_interview_pack.                  *)
(*                                                                         *)
(* Lengths are integers in units of 1/127 point: reportlab's mm is         *)
(* 72/25.4 pt = 360/127 pt, so 1 mm = 360 units and 1 pt = 127 units and   *)
(* every coordinate the code computes is an exact integer here.            *)
(* A text is the sequence of its whitespace-separated words, a word is its *)
(* width in 1/1000 pt at font size 1 (Helvetica metrics), so two words of  *)
(* different widths are different words.                                   *)
(***************************************************************************)
EXTENDS Integers, Sequences, FiniteSets, TLC

VARIABLES
    fn,        \* which exporter runs: "pdf" (pack_to_pdf) or "docx" (pack_to_docx)
    pc,        \* position in the exporter: "header", "sections", "done", "raised"
    env,       \* the call's other arguments: tenant_name, logo_url, pd_logo_path
    pack,      \* the pack, as far as the exporter's loops have read it
    cur_y,     \* pack_to_pdf: the vertical cursor
    page,      \* pack_to_pdf: number of the page being drawn (1 + showPage calls)
    ops,       \* what was emitted: canvas draw calls, or document paragraphs
    blocks,    \* history: per block, the cursor and page before and after it
    mk,        \* _ensure_question_mark applied to one text: [pc, text, out]
    gen,       \* build_ivq_pack: [pc, n, raw, questions, result]
    nrm,       \* section normaliser: [pc, upstream, sections]
    wr,        \* _wrap_lines applied to one text: [pc, text, width, size, out]
    app        \* app.py: the session (stored pack, widgets, message, history,
               \* what the last run displayed)

vars == <<fn, pc, env, pack, cur_y, page, ops, blocks, mk, gen, nrm, wr, app>>
expVars == <<fn, pc, env, pack, cur_y, page, ops, blocks>>

(***************************************************************************)
(* Bounds of the model.                                                    *)
(***************************************************************************)
MaxSections == 2
MaxQuestions == 2

(***************************************************************************)
(* Helpers on sequences.                                                   *)
(***************************************************************************)
RECURSIVE SumSeq(_)
SumSeq(s) == IF s = <<>> THEN 0 ELSE Head(s) + SumSeq(Tail(s))

RECURSIVE Flatten(_)
Flatten(ss) == IF ss = <<>> THEN <<>> ELSE Head(ss) \o Flatten(Tail(ss))

Last(s) == s[Len(s)]

Front(s) == SubSeq(s, 1, Len(s) - 1)

Take(s, n) == SubSeq(s, 1, IF Len(s) < n THEN Len(s) ELSE n)

(***************************************************************************)
(* Units and page geometry (reportlab.lib.units.mm, pagesizes.A4) and the  *)
(* layout constants of pack_to_pdf.                                        *)
(***************************************************************************)
mm == 360
PT == 127
W == 210 * mm
H == 297 * mm
MARGIN_X == 22 * mm
TOP_Y == H - 22 * mm
LINE == 16 * PT
PAD_TOP == 12 * PT
PAD_BOTTOM == 8 * PT
NOTES_LINES == 8
SECTION_GAP == 10 * PT
BLOCK_GAP == 14 * PT
BOTTOM_BUF == 65 * mm
TOP_START_GAP == 12 * mm
FollowupCap == 6

\* Helvetica metrics, 1/1000 pt at size 1: the space, the comma, the bullet.
SpaceEm == <<278>>
CommaEm == <<278>>
BulletWord == <<350>>

\* canvas.stringWidth of the words of `line` joined by single spaces, in
\* 1/1000 pt.
stringWidth(line, size) ==
    IF line = <<>> THEN 0
    ELSE size * (SumSeq(line) + SpaceEm[1] * (Len(line) - 1))

\* Whether stringWidth(t) > width, width given in 1/127 pt.
Wider(t, size, width) == stringWidth(t, size) * PT > width * 1000

RECURSIVE WrapFrom(_, _, _, _, _, _)
WrapFrom(words, i, line, out, width, size) ==
    IF i > Len(words)
    THEN IF line # <<>> THEN Append(out, line) ELSE out
    ELSE LET t == Append(line, words[i])
         IN  IF Wider(t, size, width)
             THEN WrapFrom(words, i + 1, <<words[i]>>,
                           IF line # <<>> THEN Append(out, line) ELSE out,
                           width, size)
             ELSE WrapFrom(words, i + 1, t, out, width, size)

\* Mutant of _wrap_lines: the flush of the last line after the loop is lost.
WrapNoLastFlush(text, width, size) ==
    LET r == WrapFrom(text, 1, <<>>, <<>>, width, size)
    IN  IF r = <<>> THEN r ELSE SubSeq(r, 1, Len(r) - 1)

\* Mutant of _wrap_lines: every word goes on a line of its own.
WrapOneWordPerLine(text, width, size) == [i \in 1..Len(text) |-> <<text[i]>>]

\* Mutant of _wrap_lines: the width test is lost, the text stays one line.
WrapNeverBreaks(text, width, size) == IF text = <<>> THEN <<>> ELSE <<text>>

\* _wrap_lines(c, text, width, font, size): the lines, each a sequence of words.
_wrap_lines(text, width, size) == WrapFrom(text, 1, <<>>, <<>>, width, size)

(***************************************************************************)
(* The inputs of the exporters.  The pack is read by iteration, so the     *)
(* model reveals it element by element as the loops reach it: `pack` holds *)
(* the part read so far and, at "done", the whole pack that was rendered.  *)
(***************************************************************************)
Absent == "<absent>"

ShortText == <<4000, 6000>>
LongText == <<30000, 30001>>
IntentText == <<5000, 7000>>
WideWord == <<30002>>
NoteText == <<5001, 5002>>
TallText == [i \in 1..26 |-> 40000 + i]
SevenFollowups == [i \in 1..7 |-> <<3000 + i>>]

QShort == [question |-> ShortText, intent |-> <<>>, good |-> <<>>,
           followups |-> <<>>]
QRich == [question |-> LongText, intent |-> IntentText, good |-> WideWord,
          followups |-> SevenFollowups]
QTall == [question |-> TallText, intent |-> <<>>, good |-> <<>>,
          followups |-> <<>>]
QuestionPool == {QShort, QRich, QTall}

CloseDownBullets == [i \in 1..5 |-> <<2000 + i, 9000>>]
SecPlain == [name |-> "Core Questions", bullets |-> <<>>, notes |-> <<>>]
SecClose == [name |-> "Close-down & Next Steps", bullets |-> CloseDownBullets,
             notes |-> NoteText]
SectionHeads == {SecPlain, SecClose}

\* The calls: the pack's title and housekeeping, tenant_name, logo_url (none
\* given, one that loads, one whose fetch or decoding fails) and
\* pd_logo_path (no such file, a readable image, a file that is not a
\* readable image).  Every value of every argument occurs; the arguments act
\* on separate statements of the exporters, so their product is not taken.
Hk3 == [i \in 1..3 |-> <<1000 + i, 8000>>]
Call(t, hk, tn, lg, pd) ==
    [title |-> t, housekeeping |-> hk, tenant |-> tn, logo |-> lg, pd |-> pd]
Calls ==
    { Call("Accountant Interview Pack", <<>>, "", "none", "absent"),
      Call("Accountant Interview Pack", Hk3, "Acme Ltd", "ok", "present"),
      Call(Absent, <<>>, "", "bad", "unreadable"),
      Call("Accountant Interview Pack", Hk3, "Acme Ltd", "bad", "present") }

PackInputs == [interview_type |-> "Competency", duration_mins |-> 60]

\* The number of questions read so far, over all sections.
RECURSIVE CountQuestions(_)
CountQuestions(secs) ==
    IF secs = <<>> THEN 0
    ELSE Len(Head(secs).questions) + CountQuestions(Tail(secs))

(***************************************************************************)
(* What an exporter emits: one record per draw call (pdf) or per paragraph *)
(* or table row (docx).  `lines` are consecutive text lines, the i-th      *)
(* drawn at y - (i-1) * LINE.                                              *)
(***************************************************************************)
Blk(k, s, q) == [k |-> k, s |-> s, q |-> q]

Op(pg, kind, blk, y, txt, lines) ==
    [page |-> pg, kind |-> kind, blk |-> blk, y |-> y, h |-> 0, txt |-> txt,
     lines |-> lines]

RectOp(pg, blk, y, h) ==
    [page |-> pg, kind |-> "rect", blk |-> blk, y |-> y, h |-> h, txt |-> "",
     lines |-> <<>>]

\* pack.get("title", "Interview Pack") and sec.get("name", "Section")
TitleOf(p) == IF p.title = Absent THEN "Interview Pack" ELSE p.title
NameOf(sec) == IF sec.name = Absent THEN "Section" ELSE sec.name

\* f"Interview type: {..} · Duration: {..} mins"
MetaOf(p) == p.inputs.interview_type

(***************************************************************************)
(* pack_to_pdf                                                             *)
(***************************************************************************)
\* Mutant of footer: showPage runs before the footer is drawn, so the footer
\* lands on the page after the one it closes.
FooterAfterShowPage(pg, pd) ==
    << Op(pg + 1, "foottext", Blk("foot", 0, 0), 12 * mm + 3 * PT,
          "Powered by PowerDash HR", <<>>) >>

\* footer(): the fixed text, preceded by the image when the footer logo file
\* exists and loads; the except branch draws the text alone.
footer(pg, pd) ==
    IF pd = "present"
    THEN << Op(pg, "footimg", Blk("foot", 0, 0), 12 * mm - 3 * PT, "", <<>>),
            Op(pg, "foottext", Blk("foot", 0, 0), 12 * mm + 3 * PT,
               "Powered by PowerDash HR", <<>>) >>
    ELSE << Op(pg, "foottext", Blk("foot", 0, 0), 12 * mm + 3 * PT,
               "Powered by PowerDash HR", <<>>) >>

\* Mutant of ensure_space: after the break the cursor restarts at TOP_Y.
EnsureSpaceResetsToTop(cy, px_needed) ==
    LET brk == cy - px_needed < BOTTOM_BUF
    IN  [brk |-> brk, cur_y |-> IF brk THEN TOP_Y ELSE cy]

\* Mutant of ensure_space: the test against the bottom buffer is lost.
EnsureSpaceNeverBreaks(cy, px_needed) == [brk |-> FALSE, cur_y |-> cy]

\* ensure_space(px_needed): whether it breaks the page, and the cursor after.
ensure_space(cy, px_needed) ==
    LET brk == cy - px_needed < BOTTOM_BUF
    IN  [brk |-> brk, cur_y |-> IF brk THEN TOP_Y - TOP_START_GAP ELSE cy]

\* Mutant of PdfLogo: no except clause around the logo, the failure escapes.
PdfLogoUncaught(logo) ==
    [raised |-> logo = "bad",
     ops |-> IF logo = "ok"
             THEN << Op(1, "logo", Blk("head", 0, 0), TOP_Y - 15 * mm, "", <<>>) >>
             ELSE <<>>]

\* The header's logo: drawn when ImageReader(logo_url) loads; a failure is
\* swallowed by the except clause.
PdfLogo(logo) ==
    [raised |-> FALSE,
     ops |-> IF logo = "ok"
             THEN << Op(1, "logo", Blk("head", 0, 0), TOP_Y - 15 * mm, "", <<>>) >>
             ELSE <<>>]

PdfHeaderOps(p, e) ==
    << Op(1, "title", Blk("head", 0, 0), TOP_Y - 18 * mm, TitleOf(p), <<>>),
       Op(1, "meta", Blk("head", 0, 0), TOP_Y - 24 * mm, MetaOf(p), <<>>) >>
    \o (IF e.tenant # ""
        THEN << Op(1, "tenant", Blk("head", 0, 0), TOP_Y - 30 * mm, e.tenant, <<>>) >>
        ELSE <<>>)

\* The wrapped lines of a bullet list: "• " + item, full width, size 11.
BulletLines(items) ==
    Flatten([i \in 1..Len(items) |->
                _wrap_lines(BulletWord \o items[i], W - 2 * MARGIN_X, 11)])

\* draw_bullets(title, items) and the section loop's title, bullets and
\* notes: the ops and the cursor after, from cursor cy on page pg.
TitledBullets(pg, blk, cy, title, kind, items) ==
    LET ty == cy - SECTION_GAP
        ls == BulletLines(items)
    IN  [ops |-> << Op(pg, kind, blk, ty, title, <<>>) >>
                 \o (IF ls # <<>>
                     THEN << Op(pg, "bullets", blk, ty - LINE, "", ls) >>
                     ELSE <<>>),
         cur_y |-> ty - LINE - (IF items # <<>>
                                THEN Len(ls) * LINE + 4 * PT ELSE 0)]

draw_bullets(pg, cy, items) ==
    IF items = <<>> THEN [ops |-> <<>>, cur_y |-> cy]
    ELSE TitledBullets(pg, Blk("hk", 0, 0), cy, "Housekeeping", "heading", items)

SectionNotes(pg, blk, cy, notes) ==
    LET ls == _wrap_lines(notes, W - 2 * MARGIN_X, 11)
    IN  IF notes = <<>> THEN [ops |-> <<>>, cur_y |-> cy]
        ELSE [ops |-> IF ls # <<>> THEN << Op(pg, "notes", blk, cy, "", ls) >>
                      ELSE <<>>,
              cur_y |-> cy - Len(ls) * LINE - 4 * PT]

section_head(pg, si, cy, sec) ==
    LET blk == Blk("sec", si, 0)
        tb == TitledBullets(pg, blk, cy, NameOf(sec), "sectitle", sec.bullets)
        nt == SectionNotes(pg, blk, tb.cur_y, sec.notes)
    IN  [ops |-> tb.ops \o nt.ops, cur_y |-> nt.cur_y]

\* question_block: the pre-measurement.
text_width == (W - MARGIN_X) - MARGIN_X - (PAD_TOP + PAD_BOTTOM)

q_lines(q) == _wrap_lines(q.question, text_width, 12)
intent_lines(q) == _wrap_lines(q.intent, text_width - 90 * PT, 11)
good_lines(q) == _wrap_lines(q.good, text_width - 150 * PT, 11)

\* ", ".join(items): every item but the last gets the comma on its last word.
RECURSIVE JoinComma(_)
JoinComma(items) ==
    IF items = <<>> THEN <<>>
    ELSE IF Len(items) = 1 \/ Head(items) = <<>>
         THEN Head(items) \o JoinComma(Tail(items))
         ELSE Front(Head(items)) \o << Last(Head(items)) + CommaEm[1] >>
              \o JoinComma(Tail(items))

fup_text(q) == JoinComma(Take(q.followups, FollowupCap))
fup_lines(q) == _wrap_lines(fup_text(q), text_width - 110 * PT, 11)

RowH(lines) == IF lines # <<>> THEN LINE * (Len(lines) + 1) ELSE 0

rows_h(q) ==
    Len(q_lines(q)) * LINE + 4 * PT
    + RowH(intent_lines(q)) + RowH(good_lines(q)) + RowH(fup_lines(q))

notes_h == NOTES_LINES * LINE

\* Mutant of block_h: the notes allowance is left out of the measured height.
BlockHWithoutNotes(q) == PAD_TOP + rows_h(q) + PAD_BOTTOM

block_h(q) == PAD_TOP + rows_h(q) + notes_h + PAD_BOTTOM

\* row(lbl, lines, label_min): the ops and ty after, from ty.
row(pg, blk, ty, lbl, lines) ==
    IF lines = <<>> THEN [ops |-> <<>>, ty |-> ty]
    ELSE [ops |-> << Op(pg, "row", blk, ty, lbl, lines) >>,
          ty |-> ty - Len(lines) * LINE - 2 * PT]

\* question_block after ensure_space: the drawing, from cursor cy on page pg.
question_draw(pg, blk, cy, q) ==
    LET bottom_y == cy - block_h(q)
        ty0 == cy - PAD_TOP
        ql == q_lines(q)
        ty1 == ty0 - Len(ql) * LINE - 2 * PT
        r1 == row(pg, blk, ty1, "Intent", intent_lines(q))
        r2 == row(pg, blk, r1.ty, "What good looks like", good_lines(q))
        r3 == row(pg, blk, r2.ty, "Follow-ups", fup_lines(q))
    IN  [ops |-> << RectOp(pg, blk, bottom_y, block_h(q)) >>
                 \o (IF ql # <<>> THEN << Op(pg, "qtext", blk, ty0, "", ql) >>
                     ELSE <<>>)
                 \o r1.ops \o r2.ops \o r3.ops,
         ty |-> r3.ty - notes_h,
         cur_y |-> bottom_y - BLOCK_GAP]

\* Mutant of final_footer: the page is saved without its footer.
NoFinalFooter(pg, pd) == <<>>

\* The last footer, drawn before c.save().
final_footer(pg, pd) == footer(pg, pd)

(***************************************************************************)
(* pack_to_docx: paragraphs and table rows, in document order (page and y  *)
(* are 0: the word processor paginates).                                   *)
(***************************************************************************)
Para(kind, blk, txt, lines) == Op(0, kind, blk, 0, txt, lines)

\* The header logo.  requests.get or doc.add_picture may fail; the except
\* clause swallows either.  python-docx's Document.add_picture adds its
\* paragraph before it decodes the image, so a failed decoding may leave an
\* empty paragraph behind: `left` says whether it did.
DocxLogo(logo, left) ==
    [raised |-> FALSE,
     ops |-> IF logo = "ok"
             THEN << Para("logo", Blk("head", 0, 0), "", <<>>) >>
             ELSE IF logo = "bad" /\ left
                  THEN << Para("blank", Blk("head", 0, 0), "", <<>>) >>
                  ELSE <<>>]

\* Mutant of DocxHeaderOps: the subtitle paragraph is not written.
DocxHeaderNoMeta(p, e) ==
    << Para("title", Blk("head", 0, 0), TitleOf(p), <<>>) >>
    \o (IF e.tenant # ""
        THEN << Para("tenant", Blk("head", 0, 0), e.tenant, <<>>) >>
        ELSE <<>>)

DocxHeaderOps(p, e) ==
    << Para("title", Blk("head", 0, 0), TitleOf(p), <<>>),
       Para("meta", Blk("head", 0, 0), MetaOf(p), <<>>) >>
    \o (IF e.tenant # ""
        THEN << Para("tenant", Blk("head", 0, 0), e.tenant, <<>>) >>
        ELSE <<>>)

DocxBullets(blk, items) ==
    [i \in 1..Len(items) |-> Para("bullet", blk, "", << items[i] >>)]

DocxHousekeeping(items) ==
    IF items = <<>> THEN <<>>
    ELSE << Para("blank", Blk("hk", 0, 0), "", <<>>),
            Para("heading", Blk("hk", 0, 0), "Housekeeping", <<>>) >>
         \o DocxBullets(Blk("hk", 0, 0), items)

DocxSectionHead(si, sec) ==
    LET blk == Blk("sec", si, 0)
    IN  << Para("blank", blk, "", <<>>),
           Para("sectitle", blk, NameOf(sec), <<>>) >>
        \o DocxBullets(blk, sec.bullets)
        \o (IF sec.notes # <<>> THEN << Para("notes", blk, "", << sec.notes >>) >>
            ELSE <<>>)

\* add_row(label, value) of _add_question_table
add_row(blk, lbl, value) ==
    IF value = <<>> THEN <<>> ELSE << Para("row", blk, lbl, << value >>) >>

\* _add_question_table(doc, q): the question row, the label/value rows, the
\* notes row, the spacer paragraph.
_add_question_table(blk, q) ==
    << Para("qtext", blk, "", << q.question >>) >>
    \o add_row(blk, "Intent", q.intent)
    \o add_row(blk, "What good looks like", q.good)
    \o add_row(blk, "Follow-ups", JoinComma(Take(q.followups, FollowupCap)))
    \o << Para("notesrow", blk, "", <<>>), Para("spacer", blk, "", <<>>) >>

\* _add_footer_powerdash(doc, pd_logo_path), for the document's one section.
_add_footer_powerdash(pd) ==
    IF pd = "present"
    THEN << Para("footimg", Blk("foot", 0, 0), "", <<>>),
            Para("foottext", Blk("foot", 0, 0), "  Powered by PowerDash HR", <<>>) >>
    ELSE << Para("foottext", Blk("foot", 0, 0), "Powered by PowerDash HR", <<>>) >>

(***************************************************************************)
(* The exporters as state machines.                                        *)
(***************************************************************************)
IdleMk == [pc |-> "idle", text |-> <<>>, out |-> <<>>]
IdleGen == [pc |-> "idle"]
IdleNrm == [pc |-> "idle"]
IdleWr == [pc |-> "idle"]
IdleApp == [pc |-> "idle"]

ExportInit ==
    /\ fn \in {"pdf", "docx"}
    /\ pc = "header"
    /\ \E c \in Calls :
          /\ env = [tenant |-> c.tenant, logo |-> c.logo, pd |-> c.pd]
          /\ pack = [title |-> c.title, inputs |-> PackInputs,
                     housekeeping |-> c.housekeeping, sections |-> <<>>]
    /\ cur_y = TOP_Y
    /\ page = 1
    /\ ops = <<>>
    /\ blocks = <<>>

\* History of one block: the cursor and page before it (y0, page0), the height
\* it was given, whether ensure_space ran for it (chk), the page and cursor
\* its drawing started at (page1, yd), the text cursor when its drawing ended
\* (ty) and the cursor it left (y1).
BlockRec(blk, y0, need, pg0, pg1, yd, y1, chk, ty) ==
    [blk |-> blk, y0 |-> y0, need |-> need, page0 |-> pg0, page1 |-> pg1,
     yd |-> yd, y1 |-> y1, chk |-> chk, ty |-> ty]

\* pack_to_pdf, lines 337-350: the logo, title, subtitle, tenant name.
PdfHeader ==
    /\ fn = "pdf" /\ pc = "header"
    /\ LET lg == PdfLogo(env.logo)
       IN  /\ pc' = IF lg.raised THEN "raised" ELSE "housekeeping"
           /\ ops' = IF lg.raised THEN ops
                     ELSE ops \o lg.ops \o PdfHeaderOps(pack, env)
           /\ cur_y' = IF lg.raised THEN cur_y ELSE TOP_Y - 40 * mm
    /\ UNCHANGED <<fn, env, pack, page, blocks, mk, gen, nrm, wr, app>>

\* pack_to_pdf, line 364: draw_bullets("Housekeeping", ...)
PdfHousekeeping ==
    /\ fn = "pdf" /\ pc = "housekeeping"
    /\ LET d == draw_bullets(page, cur_y, pack.housekeeping)
       IN  /\ ops' = ops \o d.ops
           /\ cur_y' = d.cur_y
           /\ blocks' = IF pack.housekeeping = <<>> THEN blocks
                        ELSE Append(blocks,
                                    BlockRec(Blk("hk", 0, 0), cur_y, cur_y - d.cur_y,
                                             page, page, cur_y, d.cur_y,
                                             FALSE, d.cur_y))
    /\ pc' = "sections"
    /\ UNCHANGED <<fn, env, pack, page, mk, gen, nrm, wr, app>>

\* pack_to_pdf, lines 417-435: the next section's title, bullets and notes.
PdfSection ==
    /\ fn = "pdf" /\ pc = "sections"
    /\ Len(pack.sections) < MaxSections
    /\ \E sec \in SectionHeads :
          LET si == Len(pack.sections) + 1
              d == section_head(page, si, cur_y, sec)
          IN  /\ pack' = [pack EXCEPT !.sections =
                             Append(@, [name |-> sec.name, bullets |-> sec.bullets,
                                        notes |-> sec.notes, questions |-> <<>>])]
              /\ ops' = ops \o d.ops
              /\ cur_y' = d.cur_y
              /\ blocks' = Append(blocks,
                                  BlockRec(Blk("sec", si, 0), cur_y, cur_y - d.cur_y,
                                           page, page, cur_y, d.cur_y,
                                           FALSE, d.cur_y))
    /\ UNCHANGED <<fn, pc, env, page, mk, gen, nrm, wr, app>>

\* pack_to_pdf, lines 437-438 and question_block: the next question of the
\* current section, drawn from `pool`, while fewer than `most` were read.
QuestionStep(pool, most) ==
    /\ fn = "pdf" /\ pc = "sections"
    /\ pack.sections # <<>>
    /\ CountQuestions(pack.sections) < most
    /\ \E q \in pool :
          LET si == Len(pack.sections)
              qi == Len(pack.sections[si].questions) + 1
              blk == Blk("q", si, qi)
              es == ensure_space(cur_y, block_h(q) + BLOCK_GAP)
              pg == IF es.brk THEN page + 1 ELSE page
              d == question_draw(pg, blk, es.cur_y, q)
          IN  /\ pack' = [pack EXCEPT !.sections[si].questions = Append(@, q)]
              /\ ops' = ops \o (IF es.brk THEN footer(page, env.pd) ELSE <<>>)
                            \o d.ops
              /\ page' = pg
              /\ cur_y' = d.cur_y
              /\ blocks' = Append(blocks,
                                  BlockRec(blk, cur_y, block_h(q), page, pg,
                                           es.cur_y, d.cur_y, TRUE, d.ty))
    /\ UNCHANGED <<fn, pc, env, mk, gen, nrm, wr, app>>

PdfQuestion == QuestionStep(QuestionPool, MaxQuestions)

\* pack_to_pdf, lines 440-443: the last footer, save, return the bytes.
PdfFinish ==
    /\ fn = "pdf" /\ pc = "sections"
    /\ ops' = ops \o final_footer(page, env.pd)
    /\ pc' = "done"
    /\ UNCHANGED <<fn, env, pack, cur_y, page, blocks, mk, gen, nrm, wr, app>>

\* pack_to_docx, lines 198-215
DocxHeader ==
    /\ fn = "docx" /\ pc = "header"
    /\ \E left \in BOOLEAN :
          LET lg == DocxLogo(env.logo, left)
          IN  /\ pc' = IF lg.raised THEN "raised" ELSE "housekeeping"
              /\ ops' = IF lg.raised THEN ops
                        ELSE ops \o lg.ops \o DocxHeaderOps(pack, env)
    /\ UNCHANGED <<fn, env, pack, cur_y, page, blocks, mk, gen, nrm, wr, app>>

\* pack_to_docx, lines 217-227
DocxHk ==
    /\ fn = "docx" /\ pc = "housekeeping"
    /\ ops' = ops \o DocxHousekeeping(pack.housekeeping)
    /\ pc' = "sections"
    /\ UNCHANGED <<fn, env, pack, cur_y, page, blocks, mk, gen, nrm, wr, app>>

\* pack_to_docx, lines 230-246
DocxSection ==
    /\ fn = "docx" /\ pc = "sections"
    /\ Len(pack.sections) < MaxSections
    /\ \E sec \in SectionHeads :
          /\ pack' = [pack EXCEPT !.sections =
                         Append(@, [name |-> sec.name, bullets |-> sec.bullets,
                                    notes |-> sec.notes, questions |-> <<>>])]
          /\ ops' = ops \o DocxSectionHead(Len(pack.sections) + 1, sec)
    /\ UNCHANGED <<fn, pc, env, cur_y, page, blocks, mk, gen, nrm, wr, app>>

\* pack_to_docx, lines 249-250
DocxQuestion ==
    /\ fn = "docx" /\ pc = "sections"
    /\ pack.sections # <<>>
    /\ CountQuestions(pack.sections) < MaxQuestions
    /\ \E q \in QuestionPool :
          LET si == Len(pack.sections)
              qi == Len(pack.sections[si].questions) + 1
          IN  /\ pack' = [pack EXCEPT !.sections[si].questions = Append(@, q)]
              /\ ops' = ops \o _add_question_table(Blk("q", si, qi), q)
    /\ UNCHANGED <<fn, pc, env, cur_y, page, blocks, mk, gen, nrm, wr, app>>

\* pack_to_docx, lines 252-258
DocxFinish ==
    /\ fn = "docx" /\ pc = "sections"
    /\ ops' = ops \o _add_footer_powerdash(env.pd)
    /\ pc' = "done"
    /\ UNCHANGED <<fn, env, pack, cur_y, page, blocks, mk, gen, nrm, wr, app>>

\* The exporters are not running (the other machines' specifications).
ExportIdle ==
    /\ fn = "none"
    /\ pc = "idle"
    /\ env = [tenant |-> "", logo |-> "none", pd |-> "absent"]
    /\ pack = [title |-> Absent, inputs |-> PackInputs, housekeeping |-> <<>>,
               sections |-> <<>>]
    /\ cur_y = TOP_Y
    /\ page = 1
    /\ ops = <<>>
    /\ blocks = <<>>

Init ==
    /\ ExportInit
    /\ mk = IdleMk /\ gen = IdleGen /\ nrm = IdleNrm
    /\ wr = IdleWr /\ app = IdleApp

Next ==
    \/ PdfHeader
    \/ PdfHousekeeping
    \/ PdfSection
    \/ PdfQuestion
    \/ PdfFinish
    \/ DocxHeader
    \/ DocxHk
    \/ DocxSection
    \/ DocxQuestion
    \/ DocxFinish

Spec == Init /\ [][Next]_vars

\* The exporter is one sequential call: it is not suspended between two of its
\* statements, so a step that can be taken is taken.
SpecRun == Init /\ [][Next]_vars /\ WF_vars(Next)

(***************************************************************************)
(* question_block on its own: one question of every combination of row     *)
(* line counts, drawn from every cursor that a first section with up to    *)
(* MaxBulletLines one-line bullets leaves.                                 *)
(***************************************************************************)
MaxRowLines == 2
MaxBulletLines == 12

\* A text of n words, each of which fills a line of its column.
LinesText(n, base) == [i \in 1..n |-> base + i]

QuestionGrid ==
    { [question |-> LinesText(a, 20000), intent |-> LinesText(b, 21000),
       good |-> LinesText(c, 22000), followups |-> f] :
         a \in 0..MaxRowLines, b \in 0..MaxRowLines, c \in 0..MaxRowLines,
         f \in {<<>>, << <<3001>> >>, SevenFollowups} }

BulletedSection(k) ==
    [name |-> "Core Questions", bullets |-> [i \in 1..k |-> <<2000 + i>>],
     notes |-> <<>>]

\* pack_to_pdf after the header, no housekeeping, and the head of the first
\* section.
BlockInit ==
    \E k \in 0..MaxBulletLines :
        LET sec == BulletedSection(k)
            e == [tenant |-> "", logo |-> "none", pd |-> "present"]
            p == [title |-> "Accountant Interview Pack", inputs |-> PackInputs,
                  housekeeping |-> <<>>, sections |-> <<>>]
            y == TOP_Y - 40 * mm
            d == section_head(1, 1, y, sec)
        IN  /\ fn = "pdf" /\ pc = "sections" /\ env = e /\ page = 1
            /\ pack = [p EXCEPT !.sections =
                          << [name |-> sec.name, bullets |-> sec.bullets,
                              notes |-> sec.notes, questions |-> <<>>] >>]
            /\ ops = PdfLogo(e.logo).ops \o PdfHeaderOps(p, e) \o d.ops
            /\ cur_y = d.cur_y
            /\ blocks = << BlockRec(Blk("sec", 1, 0), y, y - d.cur_y, 1, 1, y,
                                    d.cur_y, FALSE, d.cur_y) >>

BlockQuestion == QuestionStep(QuestionGrid, 1)

InitBlock ==
    /\ BlockInit
    /\ mk = IdleMk /\ gen = IdleGen /\ nrm = IdleNrm
    /\ wr = IdleWr /\ app = IdleApp
NextBlock == BlockQuestion
SpecBlock == InitBlock /\ [][NextBlock]_vars

(***************************************************************************)
(* _wrap_lines on its own: texts of up to MaxWords words, of which         *)
(* WideEm is wider than either column at the size used.                    *)
(***************************************************************************)
MaxWords == 4

NarrowEm == <<2000>>
MidEm == <<5000>>
WideEm == <<12000>>
WordWidths == {NarrowEm[1], MidEm[1], WideEm[1]}

\* Column widths in points, as question_block passes them (a width minus a
\* label column), scaled down to the words above.
ColumnsPt == {60, 100}

WrapInit ==
    wr \in {[pc |-> "call", text |-> t, width |-> w * PT, size |-> 11, out |-> <<>>] :
               t \in UNION {[1..k -> WordWidths] : k \in 0..MaxWords},
               w \in ColumnsPt}

\* One call of _wrap_lines.
WrapApply ==
    /\ wr.pc = "call"
    /\ wr' = [wr EXCEPT !.pc = "ret",
                        !.out = _wrap_lines(wr.text, wr.width, wr.size)]
    /\ UNCHANGED <<expVars, mk, gen, nrm, app>>

InitWrap ==
    /\ ExportIdle /\ mk = IdleMk /\ gen = IdleGen /\ nrm = IdleNrm
    /\ WrapInit /\ app = IdleApp
NextWrap == WrapApply
SpecWrap == InitWrap /\ [][NextWrap]_vars

(***************************************************************************)
(* app.py: one session.  Every interaction reruns the script; the Generate *)
(* button is true in the run its click starts.  generate_interview_pack    *)
(* returns a pack or raises; the k-th call's pack is told apart by id k.   *)
(***************************************************************************)
MaxClicks == 3

InterviewTypes == {"Competency", "Technical"}
Durations == {45, 60}
WidgetValues == [interview_type : InterviewTypes, duration_mins : Durations]

\* st.session_state without a "pack".
NoPack == [id |-> 0, inputs |-> [interview_type |-> "", duration_mins |-> 0]]

\* The pack that the k-th call returns for the inputs it was given.
generate_interview_pack(inputs, k) ==
    [id |-> k,
     inputs |-> [interview_type |-> inputs.interview_type,
                 duration_mins |-> inputs.duration_mins]]

\* Mutant of GenerateHandler: the except branch drops the stored pack.
GenerateHandlerClearsOnError(a, outcome) ==
    IF outcome = "ok"
    THEN [a EXCEPT !.stored = generate_interview_pack(a.widgets, Len(a.log) + 1),
                   !.msg = "success", !.log = Append(@, outcome)]
    ELSE [a EXCEPT !.stored = NoPack, !.msg = "error", !.log = Append(@, outcome)]

\* app.py, lines 200-229: the Generate handler, for a call that returns
\* ("ok") or raises ("raise").
GenerateHandler(a, outcome) ==
    IF outcome = "ok"
    THEN [a EXCEPT !.stored = generate_interview_pack(a.widgets, Len(a.log) + 1),
                   !.msg = "success", !.log = Append(@, outcome)]
    ELSE [a EXCEPT !.msg = "error", !.log = Append(@, outcome)]

\* The subtitle line that pack_to_pdf and pack_to_docx write: the interview
\* type and the duration of pack['inputs'].
Subtitle(p) ==
    [interview_type |-> p.inputs.interview_type,
     duration_mins |-> p.inputs.duration_mins]

\* app.py, lines 235-287: the end of every script run.  With a stored pack the
\* caption is written from the interview_type and duration_mins widgets of
\* this run, and the pack is handed to pack_to_docx and pack_to_pdf.
PreviewAndExport(a) ==
    [a EXCEPT !.shown = [visible |-> a.stored # NoPack,
                         caption |-> IF a.stored # NoPack
                                     THEN [interview_type |-> a.widgets.interview_type,
                                           duration_mins |-> a.widgets.duration_mins]
                                     ELSE Subtitle(NoPack),
                         subtitle |-> Subtitle(a.stored)]]

AppInit ==
    \E w \in WidgetValues :
        app = PreviewAndExport(
                  [pc |-> "run", stored |-> NoPack, widgets |-> w, msg |-> "none",
                   log |-> <<>>, shown |-> <<>>])

\* A click on "Generate Interview Pack".
AppGenerate ==
    /\ app.pc = "run"
    /\ Len(app.log) < MaxClicks
    /\ \E outcome \in {"ok", "raise"} :
          app' = PreviewAndExport(GenerateHandler(app, outcome))
    /\ UNCHANGED <<expVars, mk, gen, nrm, wr>>

\* The user changes the interview type or the duration: a rerun without a
\* click, in which neither st.success nor st.error is shown.
AppChangeWidgets ==
    /\ app.pc = "run"
    /\ \E w \in WidgetValues \ {app.widgets} :
          app' = PreviewAndExport([app EXCEPT !.widgets = w, !.msg = "none"])
    /\ UNCHANGED <<expVars, mk, gen, nrm, wr>>

InitApp ==
    /\ ExportIdle /\ mk = IdleMk /\ gen = IdleGen /\ nrm = IdleNrm
    /\ wr = IdleWr /\ AppInit
NextApp == AppGenerate \/ AppChangeWidgets
SpecApp == InitApp /\ [][NextApp]_vars

(***************************************************************************)
(* utils/generation_iqt.py.  A string is the sequence of its characters;   *)
(* "a" and "b" stand for ordinary characters, " " for whitespace.          *)
(***************************************************************************)
MaxTextLen == 3
MaxItems == 2

SeqUpTo(S, n) == UNION {[1..k -> S] : k \in 0..n}

Chars == {"a", " ", ".", ";", ":", "!", "?"}
TrailingPunct == {".", ";", ":", "!"}

RECURSIVE lstrip(_)
lstrip(t) == IF t # <<>> /\ Head(t) = " " THEN lstrip(Tail(t)) ELSE t

RECURSIVE rstrip(_)
rstrip(t) == IF t # <<>> /\ Last(t) = " " THEN rstrip(Front(t)) ELSE t

\* str.strip()
strip(t) == rstrip(lstrip(t))

\* re.sub(r"[\.;:!]+$", "", text)
RECURSIVE SubTrailingPunct(_)
SubTrailingPunct(t) ==
    IF t # <<>> /\ Last(t) \in TrailingPunct THEN SubTrailingPunct(Front(t)) ELSE t

\* Mutant of _ensure_question_mark: the endswith("?") test is lost.
EnsureAlwaysAppends(text) == SubTrailingPunct(strip(text)) \o <<"?">>

_ensure_question_mark(text) ==
    LET t == strip(text)
    IN  IF t # <<>> /\ Last(t) = "?" THEN t
        ELSE SubTrailingPunct(t) \o <<"?">>

MarkInit ==
    mk \in {[pc |-> "call", text |-> t, out |-> <<>>] : t \in SeqUpTo(Chars, MaxTextLen)}

\* One call of _ensure_question_mark.
MarkApply ==
    /\ mk.pc = "call"
    /\ mk' = [mk EXCEPT !.pc = "ret", !.out = _ensure_question_mark(mk.text)]
    /\ UNCHANGED <<expVars, gen, nrm, wr, app>>

InitMark ==
    /\ ExportIdle /\ MarkInit /\ gen = IdleGen /\ nrm = IdleNrm
    /\ wr = IdleWr /\ app = IdleApp
NextMark == MarkApply
SpecMark == InitMark /\ [][NextMark]_vars

(***************************************************************************)
(* call_openai_json and build_ivq_pack.  The upstream content is text that *)
(* is no JSON, a JSON array, or a JSON object; a JSON object is a function *)
(* on its keys, so a missing key is a key outside its domain.              *)
(***************************************************************************)
JStr(v) == [t |-> "str", v |-> v]
JNull == [t |-> "null", v |-> <<>>]

\* str(x)
str(x) == IF x.t = "null" THEN <<"N", "o", "n", "e">> ELSE x.v

\* dict.get(key, default)
get(d, k, default) == IF k \in DOMAIN d THEN d[k] ELSE default

ItemPool ==
    { [question |-> JStr(<<"a", "b">>), intent |-> JStr(<<"i">>),
       what_good_looks_like |-> JStr(<<"g">>),
       follow_ups |-> << JStr(<<"f">>), JStr(<<"h", "?">>) >>],
      [question |-> JStr(<<"a", ".">>), intent |-> JStr(<<" ", "i">>)],
      [question |-> JStr(<<>>), intent |-> JStr(<<"i">>)],
      [question |-> JStr(<<" ">>), what_good_looks_like |-> JStr(<<"g">>)],
      [intent |-> JStr(<<"i">>)],
      [question |-> JNull, intent |-> JStr(<<"i">>)],
      [question |-> JStr(<<"a", "?">>),
       follow_ups |-> [j \in 1..(FollowupCap + 1) |-> JStr(<<"f">>)]] }

Responses ==
    { [kind |-> "text", body |-> <<>>], [kind |-> "array", body |-> <<>>],
      [kind |-> "object", body |-> [note |-> JStr(<<"a">>)]] }
    \cup { [kind |-> "object", body |-> [questions |-> qs]] :
              qs \in SeqUpTo(ItemPool, MaxItems) }

\* call_openai_json: json.loads(content) raises on text that is no JSON.
call_openai_json(content) ==
    IF content.kind = "text"
    THEN [raised |-> TRUE, err |-> "JSONDecodeError"]
    ELSE [raised |-> FALSE, err |-> ""]

\* build_ivq_pack, lines 388-398: one item of the loop.
NormItem(item) ==
    [question |-> _ensure_question_mark(str(get(item, "question", JStr(<<>>)))),
     intent |-> strip(str(get(item, "intent", JStr(<<>>)))),
     what_good_looks_like |->
         strip(str(get(item, "what_good_looks_like", JStr(<<>>)))),
     follow_ups |->
         LET fs == get(item, "follow_ups", <<>>)
         IN  [j \in 1..Len(fs) |-> _ensure_question_mark(strip(str(fs[j])))]]

\* raw.get("questions", [])[:num_questions]
ItemsRead(raw, n) == Take(get(raw.body, "questions", <<>>), n)

Normalise(raw, n) ==
    LET items == ItemsRead(raw, n)
    IN  [i \in 1..Len(items) |-> NormItem(items[i])]

\* build_ivq_pack, lines 400-427: the parts of the HTML, in order.
Part(kind, idx, txt, items) == [kind |-> kind, idx |-> idx, txt |-> txt, items |-> items]

QuestionParts(idx, it, followups, wgll) ==
    << Part("question", idx, it.question, <<>>),
       Part("intent", idx, it.intent, <<>>) >>
    \o (IF wgll /\ it.what_good_looks_like # <<>>
        THEN << Part("wgll", idx, it.what_good_looks_like, <<>>) >> ELSE <<>>)
    \o (IF followups /\ it.follow_ups # <<>>
        THEN << Part("followups", idx, <<>>, it.follow_ups) >> ELSE <<>>)
    \o << Part("notes", idx, <<>>, <<>>) >>

Html(questions, followups, wgll, housekeeping) ==
    << Part("hdr", 0, <<>>, <<>>), Part("meta", 0, <<>>, <<>>) >>
    \o (IF housekeeping THEN << Part("housekeeping", 0, <<>>, <<>>) >> ELSE <<>>)
    \o << Part("core", 0, <<>>, <<>>) >>
    \o Flatten([i \in 1..Len(questions) |->
                   QuestionParts(i, questions[i], followups, wgll)])
    \o << Part("footer", 0, <<>>, <<>>) >>

GenInit ==
    \E n \in 0..MaxItems, fu \in BOOLEAN, wg \in BOOLEAN, hk \in BOOLEAN :
        gen = [pc |-> "start", num_questions |-> n, include_followups |-> fu,
               include_wgll |-> wg, include_housekeeping |-> hk,
               content |-> [kind |-> "none", body |-> <<>>],
               questions |-> <<>>, result |-> <<>>, err |-> "",
               docx |-> <<>>, export |-> <<>>]

\* build_ivq_pack, line 385: the upstream call; its exception is not caught.
GenCall ==
    /\ gen.pc = "start"
    /\ \E c \in Responses :
          LET r == call_openai_json(c)
          IN  gen' = [gen EXCEPT !.content = c,
                                 !.pc = IF r.raised THEN "raised" ELSE "normalise",
                                 !.err = r.err]
    /\ UNCHANGED <<expVars, mk, nrm, wr, app>>

\* build_ivq_pack, lines 387-398: raw.get on a list raises AttributeError.
GenNormalise ==
    /\ gen.pc = "normalise"
    /\ gen' = IF gen.content.kind # "object"
              THEN [gen EXCEPT !.pc = "raised", !.err = "AttributeError"]
              ELSE [gen EXCEPT !.pc = "html",
                               !.questions = Normalise(gen.content, gen.num_questions)]
    /\ UNCHANGED <<expVars, mk, nrm, wr, app>>

\* build_ivq_pack, lines 400-434: the HTML and the returned pack
\* {html, questions, meta}.
GenReturn ==
    /\ gen.pc = "html"
    /\ gen' = [gen EXCEPT
                  !.pc = "done",
                  !.result =
                      [html |-> Html(gen.questions, gen.include_followups,
                                     gen.include_wgll, gen.include_housekeeping),
                       questions |-> gen.questions,
                       meta |-> [housekeeping |-> gen.include_housekeeping]]]
    /\ UNCHANGED <<expVars, mk, nrm, wr, app>>

\* render_docx(pack, ..., logo_bytes, footer_logo_bytes): the header logo
\* (added with no except clause), the body paragraphs and the footer that
\* _add_footer_logo leaves: nothing without footer_logo_bytes, the picture, or
\* the text "PowerDash HR" when the picture cannot be added.
_add_footer_logo(fb) ==
    IF fb = "none" THEN <<>>
    ELSE IF fb = "ok" THEN << Part("footimg", 0, <<>>, <<>>) >>
         ELSE << Part("foottext", 0, <<>>, <<>>) >>

DocxQuestionParts(idx, it) ==
    << Part("question", idx, it.question, <<>>),
       Part("intent", idx, it.intent, <<>>) >>
    \o (IF it.what_good_looks_like # <<>>
        THEN << Part("wgll", idx, it.what_good_looks_like, <<>>) >> ELSE <<>>)
    \o (IF it.follow_ups # <<>>
        THEN << Part("followups", idx, <<>>, it.follow_ups) >> ELSE <<>>)
    \o << Part("notes", idx, <<>>, <<>>), Part("spacer", idx, <<>>, <<>>) >>

render_docx(p, lb, fb) ==
    [raised |-> lb = "bad",
     body |->
         (IF lb = "ok" THEN << Part("hdrlogo", 0, <<>>, <<>>) >> ELSE <<>>)
         \o << Part("hdr", 0, <<>>, <<>>), Part("meta", 0, <<>>, <<>>) >>
         \o (IF p.meta.housekeeping
             THEN << Part("spacer", 0, <<>>, <<>>),
                     Part("housekeeping", 0, <<>>, <<>>) >>
             ELSE <<>>)
         \o << Part("spacer", 0, <<>>, <<>>), Part("core", 0, <<>>, <<>>) >>
         \o Flatten([i \in 1..Len(p.questions) |->
                        DocxQuestionParts(i, p.questions[i])]),
     footer |-> _add_footer_logo(fb)]

\* The logo arguments of render_docx: none given, bytes of an image, bytes
\* that are no image.
LogoArgs ==
    { <<"none", "none">>, <<"ok", "ok">>, <<"ok", "bad">>, <<"bad", "ok">> }

\* render_docx on the pack that build_ivq_pack returned.
GenRender ==
    /\ gen.pc = "done"
    /\ \E a \in LogoArgs :
          LET d == render_docx(gen.result, a[1], a[2])
          IN  gen' = IF d.raised
                     THEN [gen EXCEPT !.pc = "raised", !.err = "UnrecognizedImageError"]
                     ELSE [gen EXCEPT !.pc = "rendered", !.docx = d]
    /\ UNCHANGED <<expVars, mk, nrm, wr, app>>

\* The rows that _add_question_table and question_block make of a question:
\* the keys they read are "question", "intent", "good" and "followups".
ExporterRows(idx, q) ==
    << Part("question", idx, get(q, "question", <<>>), <<>>) >>
    \o (IF get(q, "intent", <<>>) # <<>>
        THEN << Part("intent", idx, q.intent, <<>>) >> ELSE <<>>)
    \o (IF get(q, "good", <<>>) # <<>>
        THEN << Part("wgll", idx, q.good, <<>>) >> ELSE <<>>)
    \o (IF get(q, "followups", <<>>) # <<>>
        THEN << Part("followups", idx, <<>>, Take(q.followups, FollowupCap)) >>
        ELSE <<>>)

\* pack_to_pdf / pack_to_docx on a pack p given as a dict: pack['inputs']
\* raises KeyError on a pack without that key; the questions are read from
\* pack.get("sections", []).
ExportDict(p) ==
    IF "inputs" \notin DOMAIN p
    THEN [raised |-> TRUE, err |-> "KeyError", rows |-> <<>>]
    ELSE [raised |-> FALSE, err |-> "",
          rows |-> LET secs == get(p, "sections", <<>>)
                       qs == Flatten([i \in 1..Len(secs) |->
                                         get(secs[i], "questions", <<>>)])
                   IN  Flatten([i \in 1..Len(qs) |-> ExporterRows(i, qs[i])])]

\* pack_to_pdf or pack_to_docx on the pack that build_ivq_pack returned.
GenExport ==
    /\ gen.pc = "done"
    /\ \E f \in {"pdf", "docx"} :
          gen' = [gen EXCEPT !.pc = "exported",
                             !.export = [fn |-> f] @@ ExportDict(gen.result)]
    /\ UNCHANGED <<expVars, mk, nrm, wr, app>>

InitGen ==
    /\ ExportIdle /\ mk = IdleMk /\ GenInit /\ nrm = IdleNrm
    /\ wr = IdleWr /\ app = IdleApp
NextGen == GenCall \/ GenNormalise \/ GenReturn \/ GenRender \/ GenExport
SpecGen == InitGen /\ [][NextGen]_vars

(***************************************************************************)
(* The pack normaliser of the generator that app.py imports                *)
(* (generate_interview_pack): guarantees the close-down section and        *)
(* enforces the section order.  A section carries the position it had      *)
(* upstream as its id; the synthesized section has id 0.                   *)
(***************************************************************************)
MaxUpstream == 3

CloseDownName == "Close-down & Next Steps"
PreferredOrder == <<"Core Questions", "Technical Questions", CloseDownName>>
CloseDownNames == {CloseDownName, "Closing"}
SectionNames == {"Core Questions", "Technical Questions", CloseDownName,
                 "Closing", "Culture Add"}

DefaultCloseDown ==
    [id |-> 0, name |-> CloseDownName,
     bullets |-> <<"questions", "timeline", "next steps", "feedback", "thanks">>]

IsCloseDown(sec) == sec.name \in CloseDownNames

\* Position of a section in the preferred sequence; an accepted alternate
\* name of the close-down section counts as that section; every other name
\* ranks after the sequence.
Rank(sec) ==
    LET nm == IF IsCloseDown(sec) THEN CloseDownName ELSE sec.name
    IN  IF \E r \in DOMAIN PreferredOrder : PreferredOrder[r] = nm
        THEN CHOOSE r \in DOMAIN PreferredOrder : PreferredOrder[r] = nm
        ELSE Len(PreferredOrder) + 1

IsCanonical(sec) == Rank(sec) <= Len(PreferredOrder)

\* Mutant of EnsureCloseDown: the default section is added without looking
\* for one under an accepted name.
EnsureAlwaysSynthesizes(secs) == secs \o <<DefaultCloseDown>>

EnsureCloseDown(secs) ==
    IF \E i \in DOMAIN secs : IsCloseDown(secs[i])
    THEN secs
    ELSE secs \o <<DefaultCloseDown>>

\* Mutant of OrderSections: unrecognized sections are not moved behind the
\* canonical ones.
OrderKeepsUpstream(secs) == secs

\* Stable order by rank.
OrderSections(secs) ==
    Flatten([r \in 1..(Len(PreferredOrder) + 1) |->
                LET AtRank(sec) == Rank(sec) = r IN SelectSeq(secs, AtRank)])

NormalizeSections(secs) == OrderSections(EnsureCloseDown(secs))

UpstreamLists ==
    { [i \in DOMAIN names |-> [id |-> i, name |-> names[i], bullets |-> <<>>]] :
         names \in SeqUpTo(SectionNames, MaxUpstream) }

NormInit ==
    nrm \in {[pc |-> "raw", upstream |-> u, out |-> <<>>, again |-> <<>>] :
                u \in UpstreamLists}

\* The normaliser runs on the upstream sections.
NormApply ==
    /\ nrm.pc = "raw"
    /\ nrm' = [nrm EXCEPT !.pc = "normalized",
                          !.out = NormalizeSections(nrm.upstream)]
    /\ UNCHANGED <<expVars, mk, gen, wr, app>>

\* The normaliser runs on a pack that is already normalized.
NormAgain ==
    /\ nrm.pc = "normalized"
    /\ nrm' = [nrm EXCEPT !.pc = "renormalized",
                          !.again = NormalizeSections(nrm.out)]
    /\ UNCHANGED <<expVars, mk, gen, wr, app>>

InitNorm ==
    /\ ExportIdle /\ mk = IdleMk /\ gen = IdleGen /\ NormInit
    /\ wr = IdleWr /\ app = IdleApp
NextNorm == NormApply \/ NormAgain
SpecNorm == InitNorm /\ [][NextNorm]_vars


(***************************************************************************)
(* Properties of the exporters.                                            *)
(***************************************************************************)
OpsOfKind(k) == {i \in DOMAIN ops : ops[i].kind = k}

\* The lowest baseline an op draws at.
LowY(o) == IF o.lines = <<>> THEN o.y ELSE o.y - (Len(o.lines) - 1) * LINE

\* The draw calls of block b, and the pages they land on.
OpsOfBlock(b) == {i \in DOMAIN ops : ops[i].blk = b}
PagesOfBlock(b) == {ops[i].page : i \in OpsOfBlock(b)}

\* What block b draws reaches below the bottom buffer from the cursor the
\* block started at: for a question block the rectangle of the measured
\* height block_h, for a bullet or section block its lowest text line.
Crosses(b) ==
    IF b.blk.k = "q" THEN b.y0 - b.need < BOTTOM_BUF
    ELSE \E i \in OpsOfBlock(b.blk) : LowY(ops[i]) < BOTTOM_BUF

NoBlockSplit == \A i \in DOMAIN blocks : Cardinality(PagesOfBlock(blocks[i].blk)) <= 1

\* C1 (the claim as stated, for every kind of block): in pack_to_pdf, whenever
\* a block taken from the current cursor would cross the bottom buffer, a page
\* break is inserted before the block is drawn, and everything drawn for one
\* block lands on a single page.
C1_BreakBeforeEveryCrossingBlock ==
    fn = "pdf" =>
        /\ \A i \in DOMAIN blocks :
              Crosses(blocks[i]) => blocks[i].page1 = blocks[i].page0 + 1
        /\ NoBlockSplit

\* The part of C1 that the code keeps: question blocks break the page before
\* crossing, and no block of any kind is split over two pages.
QuestionBlocksBreakBeforeCrossing ==
    fn = "pdf" =>
        /\ \A i \in DOMAIN blocks :
              (blocks[i].blk.k = "q" /\ Crosses(blocks[i]))
                  => blocks[i].page1 = blocks[i].page0 + 1
        /\ NoBlockSplit

FootersOn(p) == Cardinality({i \in OpsOfKind("foottext") : ops[i].page = p})

\* C2: every page of the PDF, the last one included, gets exactly one footer
\* mark: one is drawn before each page break, as the last thing on its page,
\* and one more before the document is saved, so that the finished document
\* has as many footers as pages.
C2_OneFooterPerPage ==
    fn = "pdf" =>
        /\ \A p \in 1..(page - 1) : FootersOn(p) = 1
        /\ FootersOn(page) = (IF pc = "done" THEN 1 ELSE 0)
        /\ \A i \in OpsOfKind("foottext") :
              i = Len(ops) \/ ops[i + 1].page = ops[i].page + 1
        /\ pc = "done" => Cardinality(OpsOfKind("foottext")) = page

C2_Witness == fn = "pdf" /\ pc = "done" /\ page >= 3

\* The section names and question texts of the output, in output order: a
\* question's text is the words of its lines, read in order.
RECURSIVE Emitted(_)
Emitted(o) ==
    IF o = <<>> THEN <<>>
    ELSE LET x == Head(o)
         IN  (IF x.kind = "sectitle"
              THEN << [s |-> x.blk.s, q |-> 0, name |-> x.txt, words |-> <<>>] >>
              ELSE IF x.kind = "qtext"
                   THEN << [s |-> x.blk.s, q |-> x.blk.q, name |-> "",
                            words |-> Flatten(x.lines)] >>
                   ELSE <<>>)
             \o Emitted(Tail(o))

\* The section names and question texts of the pack, in pack order.
PackTexts(p) ==
    Flatten([si \in 1..Len(p.sections) |->
        << [s |-> si, q |-> 0, name |-> NameOf(p.sections[si]), words |-> <<>>] >>
        \o [qi \in 1..Len(p.sections[si].questions) |->
               [s |-> si, q |-> qi, name |-> "",
                words |-> p.sections[si].questions[qi].question]]])

\* C3: the document that pack_to_pdf or pack_to_docx returns holds every
\* section's name and every question's text exactly once, in the order of the
\* pack's sections and of the questions within each section.
C3_EverySectionAndQuestionOnceInOrder ==
    pc = "done" => Emitted(ops) = PackTexts(pack)

C3_Witness ==
    /\ pc = "done" /\ Len(pack.sections) = 2
    /\ \A si \in 1..2 : Len(pack.sections[si].questions) = 1
    /\ pack.sections[1].questions[1] = QRich

\* The output without what a failed header logo may leave behind.
Content(o) == SelectSeq(o, LAMBDA x : ~(x.kind = "blank" /\ x.blk.k = "head"))

\* The header of the same call made without a logo_url.
HeaderWithoutLogo ==
    IF fn = "pdf" THEN PdfLogo("none").ops \o PdfHeaderOps(pack, env)
    ELSE DocxLogo("none", FALSE).ops \o DocxHeaderOps(pack, env)

\* C9: with a logo_url whose fetch or decoding fails, pack_to_pdf and
\* pack_to_docx raise nothing, draw no logo image, emit the header exactly as
\* a call without logo_url does, and finish with a non-empty document that
\* holds the pack's sections and questions and ends with the footer mark.
C9_BadLogoIsSwallowed ==
    env.logo = "bad" =>
        /\ pc # "raised"
        /\ OpsOfKind("logo") = {}
        /\ pc # "header" =>
              SubSeq(Content(ops), 1, Len(HeaderWithoutLogo)) = HeaderWithoutLogo
        /\ pc = "done" =>
              /\ ops # <<>>
              /\ ops[Len(ops)].kind = "foottext"
              /\ Len(Emitted(ops)) = Len(pack.sections) + CountQuestions(pack.sections)

C9_Witness ==
    /\ env.logo = "bad" /\ pc = "done" /\ fn = "docx"
    /\ ops[1].kind = "blank"
    /\ CountQuestions(pack.sections) >= 1

EmptyPack == pack.sections = <<>> /\ pack.housekeeping = <<>>

\* C10: rendering a pack with no sections and no housekeeping raises nothing
\* and yields a document with the title, the subtitle line and a footer mark.
C10_EmptyPackStillRenders ==
    EmptyPack =>
        /\ pc # "raised"
        /\ pc = "done" =>
              /\ \E i \in OpsOfKind("title") : ops[i].txt = TitleOf(pack)
              /\ \E i \in OpsOfKind("meta") : ops[i].txt = MetaOf(pack)
              /\ OpsOfKind("foottext") # {}

C10_Witness == EmptyPack /\ pc = "done" /\ fn = "docx" /\ pack.title = Absent


(***************************************************************************)
(* The normaliser and generator claims.                                    *)
(***************************************************************************)
CloseDownsOf(secs) == {i \in DOMAIN secs : IsCloseDown(secs[i])}

UpstreamIds(secs) == {secs[i].id : i \in CloseDownsOf(secs)}

Stripped == strip(mk.text)

TerminalPunct == {".", "!", "?"}

\* C5 as claimed: non-empty text lacking terminal punctuation gets exactly
\* one "?" appended, and text that ends in terminal punctuation (".", "!" or
\* "?") is returned unchanged.
C5_TerminalPunctuationUnchanged ==
    (mk.pc = "ret" /\ Stripped # <<>>) =>
        IF Last(Stripped) \in TerminalPunct
        THEN mk.out = Stripped
        ELSE mk.out = Stripped \o <<"?">>

\* C5 as amended: text that ends in "?" is returned unchanged (stripped);
\* non-empty text that ends in none of . ; : ! ? gets exactly one "?"
\* appended; text that ends in a run of . ; : ! has that whole run replaced
\* by a single "?".
C5_TrailingPunctuationBecomesQuestionMark ==
    (mk.pc = "ret" /\ Stripped # <<>>) =>
        LET t == Stripped
        IN  /\ Last(mk.out) = "?"
            /\ Last(t) = "?" => mk.out = t
            /\ Last(t) \notin (TrailingPunct \cup {"?"}) => mk.out = t \o <<"?">>
            /\ Last(t) \in TrailingPunct =>
                  \E k \in 0..(Len(t) - 1) :
                      /\ mk.out = Take(t, k) \o <<"?">>
                      /\ \A j \in (k + 1)..Len(t) : t[j] \in TrailingPunct
                      /\ k > 0 => t[k] \notin TrailingPunct

C5_Witness ==
    /\ mk.pc = "ret"
    /\ mk.text = <<"a", ".">>
    /\ mk.out = <<"a", "?">>

NonCanonicalOf(secs) ==
    LET T(sec) == ~IsCanonical(sec) IN SelectSeq(secs, T)

AtRankOf(secs, r) ==
    LET T(sec) == Rank(sec) = r /\ sec.id # 0 IN SelectSeq(secs, T)

\* C6: the normalized sections have every canonically named section, in the
\* preferred sequence, before any other section; the sections of each group
\* keep the relative order they had upstream; and normalizing the normalized
\* sections again changes nothing.
C6_CanonicalFirstStableIdempotent ==
    nrm.pc \in {"normalized", "renormalized"} =>
        /\ \A i, j \in DOMAIN nrm.out :
              i < j => /\ ~(~IsCanonical(nrm.out[i]) /\ IsCanonical(nrm.out[j]))
                       /\ Rank(nrm.out[i]) <= Rank(nrm.out[j])
        /\ NonCanonicalOf(nrm.out) = NonCanonicalOf(nrm.upstream)
        /\ \A r \in DOMAIN PreferredOrder :
              AtRankOf(nrm.out, r) = AtRankOf(nrm.upstream, r)
        /\ nrm.pc = "renormalized" => nrm.again = nrm.out

C6_Witness ==
    /\ nrm.pc = "renormalized"
    /\ Len(nrm.upstream) = 3
    /\ ~IsCanonical(nrm.upstream[1])
    /\ IsCanonical(nrm.upstream[2])
    /\ ~IsCanonical(nrm.upstream[3])
    /\ nrm.out # nrm.upstream \o <<DefaultCloseDown>>
    /\ nrm.again = nrm.out

\* The upstream content is not the expected JSON: no JSON at all, no JSON
\* object, or an object without the "questions" list.
NotExpectedSchema(c) ==
    \/ c.kind \in {"text", "array"}
    \/ c.kind = "object" /\ "questions" \notin DOMAIN c.body

\* C7: when the upstream response cannot be parsed as the expected JSON,
\* generation raises nothing to its caller and returns a pack whose single
\* unnamed section holds the raw text.
C7_UnparsableDegradesWithoutRaising ==
    (gen.pc # "idle" /\ NotExpectedSchema(gen.content)) =>
        /\ gen.pc # "raised"
        /\ gen.pc = "done" =>
              /\ "sections" \in DOMAIN gen.result
              /\ Len(gen.result.sections) = 1

\* An upstream item that has question text.
HasQuestionText(item) ==
    /\ "question" \in DOMAIN item
    /\ item.question.t = "str"
    /\ strip(item.question.v) # <<>>

\* C8: every question of the pack has non-empty text: an upstream item
\* whose question text is empty or missing is dropped and is no question of
\* the pack.
C8_EmptyQuestionsAreDropped ==
    gen.pc \in {"html", "done"} =>
        LET items == get(gen.content.body, "questions", <<>>)
        IN  /\ \A i \in DOMAIN gen.questions : gen.questions[i].question # <<>>
            /\ Len(gen.questions) <=
                  Cardinality({i \in DOMAIN items : HasQuestionText(items[i])})


(***************************************************************************)
(* _wrap_lines.                                                            *)
(***************************************************************************)
LineFits(line) == ~Wider(line, wr.size, wr.width)

\* C18: _wrap_lines is a greedy wrap without hyphenation: the words of the
\* output lines, read in order, are the words of the text; no line is empty;
\* the empty text gives no lines; a line of several words fits the column;
\* and a line ends only where the next word would not have fitted on it.
C18_GreedyWrapKeepsWords ==
    wr.pc = "ret" =>
        /\ Flatten(wr.out) = wr.text
        /\ \A k \in DOMAIN wr.out : wr.out[k] # <<>>
        /\ wr.text = <<>> => wr.out = <<>>
        /\ \A k \in DOMAIN wr.out : Len(wr.out[k]) >= 2 => LineFits(wr.out[k])
        /\ \A k \in DOMAIN wr.out :
              k > 1 => ~LineFits(Append(wr.out[k - 1], wr.out[k][1]))

C18_Witness ==
    /\ wr.pc = "ret"
    /\ Len(wr.text) = 4
    /\ Len(wr.out) = 2
    /\ Len(wr.out[1]) = 3

\* C19 as claimed: every line that _wrap_lines returns is at most as wide as
\* the column, also for a text with a word wider than the column.
C19_EveryLineFits ==
    wr.pc = "ret" => \A k \in DOMAIN wr.out : LineFits(wr.out[k])

\* C19 as amended: every returned line of two or more words is at most as
\* wide as the column; a returned line that is wider than the column is one
\* word that is itself wider than the column, alone on its line.
C19_OnlyASingleWordOverflows ==
    wr.pc = "ret" =>
        \A k \in DOMAIN wr.out :
            \/ LineFits(wr.out[k])
            \/ /\ Len(wr.out[k]) = 1
               /\ Wider(<<wr.out[k][1]>>, wr.size, wr.width)
               /\ \E i \in DOMAIN wr.text : wr.text[i] = wr.out[k][1]

C19_Witness ==
    /\ wr.pc = "ret"
    /\ wr.text = <<NarrowEm[1], WideEm[1], NarrowEm[1]>>
    /\ Len(wr.out) = 3
    /\ ~LineFits(wr.out[2])


(***************************************************************************)
(* The page-break check, the cursor and the rectangle of pack_to_pdf.      *)
(***************************************************************************)
QuestionBlocks == {i \in DOMAIN blocks : blocks[i].blk.k = "q"}

\* The rectangle drawn for block b.
RectsOf(b) == {i \in OpsOfBlock(b.blk) : ops[i].kind = "rect"}

\* C15: every block of pack_to_pdf (the housekeeping list, each section's
\* title with bullets and notes, each question block) is drawn only after the
\* page-break check, so that no block's drawing starts with the cursor below
\* the bottom buffer and no line of a bullet list, title or notes is drawn at
\* a cursor below it.
C15_EveryBlockCheckedBeforeDrawing ==
    fn = "pdf" =>
        /\ \A i \in DOMAIN blocks :
              /\ blocks[i].chk
              /\ blocks[i].yd >= BOTTOM_BUF
        /\ \A j \in DOMAIN ops :
              ops[j].blk.k \in {"hk", "sec"} => LowY(ops[j]) >= BOTTOM_BUF

\* What C16 says of the blocks drawn so far.
CursorProtocol ==
    fn = "pdf" =>
        \A i \in QuestionBlocks :
            LET b == blocks[i]
            IN  /\ b.y1 = b.yd - b.need - BLOCK_GAP
                /\ b.page1 \in {b.page0, b.page0 + 1}
                /\ b.page1 = b.page0 => b.yd = b.y0
                /\ b.page1 # b.page0 =>
                      /\ b.yd = TOP_Y - TOP_START_GAP
                      /\ \A j \in RectsOf(b) :
                            /\ j > 1
                            /\ ops[j - 1].kind = "foottext"
                            /\ ops[j - 1].page = b.page0
                /\ PagesOfBlock(b.blk) = {b.page1}

\* What C16 says of one step.
CursorStep ==
    fn = "pdf" =>
        /\ page' \in {page, page + 1}
        /\ page' = page => cur_y' <= cur_y
        /\ cur_y' > cur_y => page' = page + 1

\* C16: on a page break the footer is drawn, the page is changed and the
\* cursor is reset to TOP_Y - TOP_START_GAP before the block is drawn; a
\* question block leaves the cursor at the cursor its drawing started at
\* minus the measured height minus BLOCK_GAP; the cursor never rises within
\* a page.
C16_CursorProtocol == []CursorProtocol /\ [][CursorStep]_vars

C16_Witness ==
    /\ fn = "pdf" /\ pc = "done" /\ page = 2
    /\ \E i \in QuestionBlocks : blocks[i].page1 = blocks[i].page0 + 1
    /\ \E i \in QuestionBlocks : blocks[i].page1 = blocks[i].page0

\* C17: the rectangle of a question block has the measured height and starts
\* at the cursor; every text line of the block is drawn between its top and
\* bottom edge, the notes allowance lies below the last text line, and the
\* text cursor after the notes allowance is not below the bottom edge.
C17_RectangleHoldsItsContent ==
    fn = "pdf" =>
        \A i \in QuestionBlocks :
            LET b == blocks[i]
            IN  /\ Cardinality(RectsOf(b)) = 1
                /\ \A r \in RectsOf(b) :
                      /\ ops[r].h = b.need
                      /\ ops[r].y + ops[r].h = b.yd
                      /\ b.ty >= ops[r].y
                      /\ b.ty + notes_h <= b.yd
                      /\ \A j \in OpsOfBlock(b.blk) \ {r} :
                            /\ ops[j].y <= b.yd
                            /\ LowY(ops[j]) >= ops[r].y
                            /\ LowY(ops[j]) >= b.ty + notes_h

C17_Witness ==
    /\ fn = "pdf"
    /\ \E i \in QuestionBlocks :
          /\ blocks[i].page1 = 2
          /\ Cardinality(OpsOfBlock(blocks[i].blk)) = 5
          /\ \E j \in OpsOfBlock(blocks[i].blk) :
                ops[j].kind = "qtext" /\ Len(ops[j].lines) = MaxRowLines
          /\ \E j \in OpsOfBlock(blocks[i].blk) : ops[j].txt = "Follow-ups"

\* The height between a fresh page's first cursor and the bottom buffer.
FreshPageRoom == TOP_Y - TOP_START_GAP - BOTTOM_BUF

\* C20 as claimed: the rectangle of every question block lies at or above
\* the bottom buffer, whatever the block's height.
C20_RectangleAboveBuffer ==
    fn = "pdf" =>
        \A i \in DOMAIN ops : ops[i].kind = "rect" => ops[i].y >= BOTTOM_BUF

\* C20 as amended: the rectangle of every question block that is not higher
\* than the room between a fresh page's first cursor and the bottom buffer
\* lies at or above the bottom buffer, also when it is the first thing on a
\* fresh page; a higher block is drawn whole from the top of a fresh page and
\* its rectangle reaches below the buffer.
C20_FittingRectangleAboveBuffer ==
    fn = "pdf" =>
        \A i \in QuestionBlocks :
            /\ blocks[i].need <= FreshPageRoom =>
                   \A r \in RectsOf(blocks[i]) : ops[r].y >= BOTTOM_BUF
            /\ blocks[i].need > FreshPageRoom =>
                   /\ blocks[i].page1 = blocks[i].page0 + 1
                   /\ \A r \in RectsOf(blocks[i]) : ops[r].y < BOTTOM_BUF

C20_Witness ==
    /\ fn = "pdf"
    /\ \E i \in QuestionBlocks :
          /\ blocks[i].page1 = blocks[i].page0 + 1
          /\ blocks[i].need <= FreshPageRoom
          /\ blocks[i].need > FreshPageRoom - 20 * LINE


(***************************************************************************)
(* The renderers of the pack that build_ivq_pack returns.                  *)
(***************************************************************************)
FollowupParts(parts) == {i \in DOMAIN parts : parts[i].kind = "followups"}

CappedFollowups(parts) ==
    \A i \in FollowupParts(parts) :
        /\ Len(parts[i].items) <= FollowupCap
        /\ parts[i].items = Take(gen.questions[parts[i].idx].follow_ups, FollowupCap)

\* C12: every renderer shows at most 6 follow-ups of a question, the first 6
\* in order: the HTML of build_ivq_pack, the document of render_docx and the
\* rows of pack_to_pdf and pack_to_docx.
C12_AtMostSixFollowupsRendered ==
    /\ gen.pc \in {"done", "rendered", "exported"} => CappedFollowups(gen.result.html)
    /\ gen.pc = "rendered" => CappedFollowups(gen.docx.body)
    /\ gen.pc = "exported" => CappedFollowups(gen.export.rows)

ShownInPreview(part) ==
    /\ part.kind \in {"question", "intent", "wgll", "followups"}
    /\ part.txt # <<>> \/ part.items # <<>>

\* C13: the exporters read the pack that the preview shows: pack_to_pdf and
\* pack_to_docx accept the pack that generation returned, and every
\* non-empty question, intent, what-good-looks-like and follow-ups field
\* shown in the preview is a row of the exported document.
C13_PreviewFieldsAreExported ==
    gen.pc = "exported" =>
        /\ ~gen.export.raised
        /\ \A i \in DOMAIN gen.result.html :
              ShownInPreview(gen.result.html[i]) =>
                  \E j \in DOMAIN gen.export.rows :
                      /\ gen.export.rows[j].kind = gen.result.html[i].kind
                      /\ gen.export.rows[j].idx = gen.result.html[i].idx

\* C14: a word-processing export carries a footer mark whether or not the
\* footer image is there: the footer that render_docx leaves holds the image
\* or, when the image is absent or cannot be inserted, the brand text; so
\* does the footer of pack_to_docx.
C14_FooterMarkWithoutLogo ==
    /\ gen.pc = "rendered" =>
          \E i \in DOMAIN gen.docx.footer :
              gen.docx.footer[i].kind \in {"footimg", "foottext"}
    /\ (fn = "docx" /\ pc = "done") => OpsOfKind("foottext") # {}


(***************************************************************************)
(* The session of app.py.                                                  *)
(***************************************************************************)
\* The number of the last call that returned, 0 when none did.
LastOk(log) ==
    IF \E k \in DOMAIN log : log[k] = "ok"
    THEN CHOOSE k \in DOMAIN log :
             log[k] = "ok" /\ \A j \in DOMAIN log : j > k => log[j] = "raise"
    ELSE 0

\* What C11 says of the session after any sequence of clicks.
StoredPackIsLastSuccess ==
    app.pc # "idle" =>
        /\ app.pc = "run"
        /\ app.stored.id = LastOk(app.log)
        /\ app.stored = NoPack <=> LastOk(app.log) = 0
        /\ app.msg = "error" => (app.log # <<>> /\ Last(app.log) = "raise")
        /\ app.msg = "success" => (app.log # <<>> /\ Last(app.log) = "ok")

\* What a failed call may change.
FailedCallKeepsPack ==
    (app.pc # "idle" /\ app'.log # app.log /\ Last(app'.log) = "raise") =>
        /\ app'.stored = app.stored
        /\ app'.msg = "error"

\* C11: after any sequence of Generate clicks, the stored pack is the pack of
\* the last call that returned, or absent when none returned; a call that
\* raises shows the inline error and leaves the stored pack as it was, one
\* that returns shows the success message and replaces it; the session keeps
\* running and takes the next click.
C11_StoredPackIsLastSuccess ==
    []StoredPackIsLastSuccess /\ [][FailedCallKeepsPack]_vars

C11_Witness ==
    /\ app.pc = "run"
    /\ app.log = <<"ok", "raise", "ok">>
    /\ app.stored.id = 3
    /\ app.msg = "success"

(***************************************************************************)
(* C21: the page breaks of pack_to_pdf.                                    *)
(***************************************************************************)
\* The block records whose drawing started on a later page than the cursor
\* stood on before them: the page breaks that happened.
BrokenBlocks == {i \in 1..Len(blocks) : blocks[i].page1 # blocks[i].page0}

\* The first thing emitted on page p (0 when nothing was).
FirstOn(p) ==
    IF \E i \in 1..Len(ops) : ops[i].page = p
    THEN CHOOSE i \in 1..Len(ops) :
            /\ ops[i].page = p
            /\ \A j \in 1..(i - 1) : ops[j].page # p
    ELSE 0

IsFooterOp(o) == o.kind \in {"footimg", "foottext"}

PagesWellFormed ==
    fn = "pdf" =>
        \* a break happens only before a question block, once per question
        /\ \A i \in BrokenBlocks :
              /\ blocks[i].blk.k = "q"
              /\ blocks[i].chk
              /\ blocks[i].page1 = blocks[i].page0 + 1
        /\ page = 1 + Cardinality(BrokenBlocks)
        /\ page <= 1 + CountQuestions(pack.sections)
        \* nothing is drawn on a page that does not exist, or behind the page
        \* being drawn
        /\ \A i \in 1..Len(ops) : ops[i].page \in 1..page
        /\ \A i, j \in 1..Len(ops) : i < j => ops[i].page <= ops[j].page
        \* every page after the first starts with a question's rectangle
        /\ \A p \in 2..page :
              /\ FirstOn(p) # 0
              /\ ops[FirstOn(p)].kind = "rect"
              /\ ops[FirstOn(p)].blk.k = "q"
        \* no page of the finished document holds only a footer
        /\ pc = "done" =>
              \A p \in 1..page :
                 \E i \in 1..Len(ops) : ops[i].page = p /\ ~IsFooterOp(ops[i])

\* pack_to_pdf has returned the document.
Terminated == fn = "pdf" => pc = "done"

\* C21: pack_to_pdf always finishes; it breaks the page only immediately before a question block and at most once per
\* question, so it has at most 1 + (number of questions) pages, every page
\* after the first starts with a question block, and no page holds only a
\* footer.
C21_TerminatesWithoutFooterOnlyPages == <>Terminated /\ []PagesWellFormed

\* A finished PDF where every question broke the page: 1 + MaxQuestions pages.
C21_Witness ==
    /\ fn = "pdf" /\ pc = "done"
    /\ CountQuestions(pack.sections) = MaxQuestions
    /\ page = 1 + MaxQuestions

(***************************************************************************)
(* C22: the feature toggles on the outputs of one pack.                    *)
(***************************************************************************)
PartsOfKind(parts, k) == {i \in DOMAIN parts : parts[i].kind = k}

\* An output obeys the toggles the pack was built with.
ObeysToggles(parts) ==
    /\ ~gen.include_followups => PartsOfKind(parts, "followups") = {}
    /\ ~gen.include_wgll => PartsOfKind(parts, "wgll") = {}

HtmlObeysToggles ==
    gen.pc \in {"done", "rendered", "exported"} => ObeysToggles(gen.result.html)

\* C22: with include_followups false no follow-ups appear, and with
\* include_wgll false no what-good-looks-like text appears, neither in the
\* HTML of build_ivq_pack nor in the document that render_docx makes of the
\* pack that build_ivq_pack returned.
C22_TogglesActOnEveryOutput ==
    /\ HtmlObeysToggles
    /\ gen.pc = "rendered" => ObeysToggles(gen.docx.body)

(***************************************************************************)
(* C23: what the app displays with a stored pack.                          *)
(***************************************************************************)
\* The interview type and duration the stored pack was generated with: the
\* widget values of the run whose click produced it.
GeneratedWith == Subtitle(app.stored)

\* The preview caption shows what the pack was generated with.
CaptionIsOfPack ==
    (app.pc = "run" /\ app.shown.visible) => app.shown.caption = GeneratedWith

\* The subtitle of the exported documents shows what the pack was generated
\* with.
SubtitleIsOfPack ==
    (app.pc = "run" /\ app.shown.visible) => app.shown.subtitle = GeneratedWith

\* C23: the interview type and duration displayed with a stored pack, in the
\* preview caption and in the subtitle of the exported documents, are the ones
\* the pack was generated with, also after the widgets were changed without
\* generating again.
C23_DisplayedMetaIsOfStoredPack == CaptionIsOfPack /\ SubtitleIsOfPack

====
